---- MODULE Spec2Model ----
(***************************************************************************)
(* State-machine model of voibot.chatbot.VoiAssistant.                    *)
(*                                                                         *)
(* A Python string is a sequence of atoms: an atom is either a piece of   *)
(* literal text or one of the two placeholder tokens.  str.replace and    *)
(* the `in` substring test act on whole atoms.  A Python value that may   *)
(* be a string or a dict is a record [kind, str, dict].                   *)
(***************************************************************************)
EXTENDS Integers, Sequences, FiniteSets, TLC

VARIABLES
    pdf_urls,             \* self.pdf_urls: ordered <<[key, val]>> (dict order)
    dont_know_response,   \* self.dont_know_response
    indices,              \* self.indices: set of [key, val]
    memory,               \* self.memory.chat_memory.messages
    doc_outcome,          \* environment: what fetching, parsing, indexing does
    temp_files,           \* URLs whose downloaded temporary copy is still on disk
    init,                 \* the initialize_assistant calls so far, as observed
    calls,                \* number of get_response calls so far
    last,                 \* the latest get_response call, as observed
    observed              \* what a getter handed out since that call

vars == <<pdf_urls, dont_know_response, indices, memory, doc_outcome,
          temp_files, init, calls, last, observed>>

config == <<pdf_urls, dont_know_response, doc_outcome>>

----------------------------------------------------------------------------
\* Bounds of the exploration.

\* Number of get_response calls explored.
MaxCalls == 2

\* Number of documents and index builds the environment lets fail.
MaxFailures == 1

----------------------------------------------------------------------------
\* Strings and values.

RR == "{most_recent_response}"
RQ == "{most_recent_query}"

Str(s) == [kind |-> "str", str |-> s, dict |-> {}]
Dict(d) == [kind |-> "dict", str |-> <<>>, dict |-> d]
None == [kind |-> "none", str |-> <<>>, dict |-> {}]

\* Python truthiness of None, a str or a dict.
Truthy(v) ==
    CASE v.kind = "none" -> FALSE
      [] v.kind = "str" -> v.str # <<>>
      [] v.kind = "dict" -> v.dict # {}

Fallback == <<"Unfortunately, I am unable to help you with that.">>
DefaultReply == <<"I'm not sure how to respond to that.">>
NoResponseSentinel == <<"Error: Most recent response could not be retrieved">>
NoQuerySentinel == <<"Error: Most recent query could not be retrieved">>
RAG == <<"RAG">>
RoleBased == <<"role_based_llm_reply">>
DontKnow == <<"I don't know">>
DontKnowDot == <<"I don't know.">>

\* f"Error: No database found for segment '{segment}'"
MissingSegmentMessage(segment) ==
    <<"Error: No database found for segment '", segment, "'">>

\* token in s
Contains(s, token) == \E i \in 1..Len(s) : s[i] = token

\* s.replace(token, by): every occurrence, one pass, left to right.
RECURSIVE Replace(_, _, _)
Replace(s, token, by) ==
    IF s = <<>> THEN <<>>
    ELSE (IF Head(s) = token THEN by ELSE <<Head(s)>>)
             \o Replace(Tail(s), token, by)

\* d.get(key, default) on a dict held as a set of [key, val].
DictGet(d, key, default) ==
    IF \E e \in d : e.key = key
    THEN (CHOOSE e \in d : e.key = key).val
    ELSE default

----------------------------------------------------------------------------
\* The configuration given to __init__.

Segments == {"billing", "unified"}
Urls == {"u1", "u2", "u3"}

\* The three shapes of the pdf_urls argument: a dict (in both declaration
\* orders), a list, a single URL.
PdfUrlArgs ==
    { [kind |-> "dict", str |-> "",
       dict |-> << [key |-> "billing", val |-> <<"u1", "u2">>],
                   [key |-> "unified", val |-> <<"u3">>] >>, list |-> <<>>],
      [kind |-> "dict", str |-> "",
       dict |-> << [key |-> "unified", val |-> <<"u3">>],
                   [key |-> "billing", val |-> <<"u1", "u2">>] >>, list |-> <<>>],
      [kind |-> "list", str |-> "", dict |-> <<>>, list |-> <<"u1", "u3">>],
      [kind |-> "str", str |-> "u3", dict |-> <<>>, list |-> <<>>] }

\* pdf_urls if isinstance(pdf_urls, dict)
\*   else {"unified": pdf_urls if isinstance(pdf_urls, list) else [pdf_urls]}
NormalizePdfUrls(arg) ==
    IF arg.kind = "dict" THEN arg.dict
    ELSE << [key |-> "unified",
             val |-> IF arg.kind = "list" THEN arg.list ELSE <<arg.str>>] >>

DontKnowArgs ==
    { None,
      Str(<<"Sorry, I could not find that.">>),
      Dict({[key |-> "refund", val |-> <<"No refund information found.">>]}) }

\* dont_know_response if dont_know_response else {}
NormalizeDontKnow(arg) == IF Truthy(arg) THEN arg ELSE Dict({})

intents == {"greeting", "recap", "both", "hours", "refund", "billing", "other", "bare"}

replies ==
    { [key |-> "greeting", val |-> <<"Hello, ", RQ, "!">>],
      [key |-> "recap", val |-> <<"As I said: ", RR>>],
      [key |-> "both", val |-> <<RR, " was my answer to ", RQ>>],
      [key |-> "hours", val |-> <<"We are open 9 to 5.">>],
      [key |-> "refund", val |-> RAG],
      [key |-> "billing", val |-> RAG],
      [key |-> "other", val |-> RoleBased] }

segment_assignments == { [key |-> "billing", val |-> "billing"] }

\* What the classifier may answer: a declared intent or anything else.
Labels == intents \cup {"gibberish"}

\* What the retrieval chain may answer.
Answers == { DontKnow, DontKnowDot, <<"i don't know">>, <<"Refunds take 5 days.">> }

\* What the role-based completion may answer.
RoleReplies == { <<"Happy to help!">> }

\* The query of the n-th get_response call: every call brings a fresh one.
Query(n) == <<"query ", ToString(n)>>

----------------------------------------------------------------------------
\* ConversationBufferMemory and the two getters.

Human(content) == [type |-> "human", content |-> content]
AI(content) == [type |-> "ai", content |-> content]

\* The newest message of the given type, 0 when there is none.
Newest(mem, type) ==
    IF \E i \in 1..Len(mem) : mem[i].type = type
    THEN CHOOSE i \in 1..Len(mem) :
             /\ mem[i].type = type
             /\ \A j \in (i + 1)..Len(mem) : mem[j].type # type
    ELSE 0

get_most_recent_response(mem) ==
    IF Newest(mem, "ai") # 0 THEN mem[Newest(mem, "ai")].content
    ELSE NoResponseSentinel

\* The getter with the other getter's sentinel pasted in.
get_most_recent_query_pasted(mem) ==
    IF Newest(mem, "human") # 0 THEN mem[Newest(mem, "human")].content
    ELSE NoResponseSentinel

get_most_recent_query(mem) ==
    IF Newest(mem, "human") # 0 THEN mem[Newest(mem, "human")].content
    ELSE NoQuerySentinel

\* A memory that keeps the latest turn only.
save_context_window(mem, query, response) == <<Human(query), AI(response)>>

\* memory.save_context on a string response.
save_context(mem, query, response) == mem \o <<Human(query), AI(response)>>

NotObserved == [getter |-> "none", value |-> <<>>]

\* A caller reads the most recent response.
GetMostRecentResponse ==
    /\ observed' = [getter |-> "response", value |-> get_most_recent_response(memory)]
    /\ UNCHANGED <<config, indices, memory, temp_files, init, calls, last>>

\* A caller reads the most recent query.
GetMostRecentQuery ==
    /\ observed' = [getter |-> "query", value |-> get_most_recent_query(memory)]
    /\ UNCHANGED <<config, indices, memory, temp_files, init, calls, last>>

----------------------------------------------------------------------------
\* initialize_assistant: the index store.

Keys(d) == { e.key : e \in d }

\* d[key] = val
DictSet(d, key, val) == { e \in d : e.key # key } \cup { [key |-> key, val |-> val] }

Outcomes == {"ok", "download_fails", "parse_fails"}
IndexOutcomes == {"ok", "index_fails"}

\* The environments: at most MaxFailures of the steps fail.
Environments ==
    { f \in [Urls \cup Segments -> Outcomes \cup IndexOutcomes] :
        /\ \A u \in Urls : f[u] \in Outcomes
        /\ \A s \in Segments : f[s] \in IndexOutcomes
        /\ Cardinality({ x \in Urls \cup Segments : f[x] # "ok" }) <= MaxFailures }

\* The inner loop with each document in a try block of its own: a failing
\* document is skipped and the segment is built from the others.
RECURSIVE LoadDocsSkipping(_, _, _)
LoadDocsSkipping(urls, all_docs, outcome) ==
    IF urls = <<>> THEN [ok |-> TRUE, all_docs |-> all_docs, left |-> {}]
    ELSE LoadDocsSkipping(Tail(urls),
                          IF outcome[Head(urls)] = "ok"
                          THEN Append(all_docs, Head(urls)) ELSE all_docs,
                          outcome)

\* The inner loop over one segment's URLs: download, load, split, extend,
\* remove.  Stops at the first exception; `left` is the temporary file that
\* was downloaded and not removed.
RECURSIVE LoadDocs(_, _, _)
LoadDocs(urls, all_docs, outcome) ==
    IF urls = <<>> THEN [ok |-> TRUE, all_docs |-> all_docs, left |-> {}]
    ELSE CASE outcome[Head(urls)] = "download_fails" ->
                  [ok |-> FALSE, all_docs |-> all_docs, left |-> {}]
           [] outcome[Head(urls)] = "parse_fails" ->
                  [ok |-> FALSE, all_docs |-> all_docs, left |-> {Head(urls)}]
           [] OTHER ->
                  LoadDocs(Tail(urls), Append(all_docs, Head(urls)), outcome)

\* The outer loop over self.pdf_urls.items() inside the single try block: the
\* first exception leaves the loop, keeping what was stored before it.
RECURSIVE BuildSegments(_, _, _)
BuildSegments(items, store, outcome) ==
    IF items = <<>> THEN [indices |-> store, left |-> {}, error |-> FALSE]
    ELSE LET segment == Head(items).key
             loaded == LoadDocs(Head(items).val, <<>>, outcome)
         IN  IF ~loaded.ok
             THEN [indices |-> store, left |-> loaded.left, error |-> TRUE]
             ELSE IF outcome[segment] = "index_fails"
             THEN [indices |-> store, left |-> {}, error |-> TRUE]
             ELSE BuildSegments(Tail(items),
                                DictSet(store, segment, loaded.all_docs),
                                outcome)

initialize_assistant ==
    LET built == BuildSegments(pdf_urls, indices, doc_outcome)
    IN  /\ indices' = built.indices
        /\ temp_files' = temp_files \cup built.left
        /\ init' = [called |-> TRUE, error |-> built.error]
        /\ UNCHANGED <<config, memory, calls, last, observed>>

----------------------------------------------------------------------------
\* get_response: one action per path through it.

\* The membership check left out.
IsDeclaredAlways(category) == TRUE

\* category in self.intents
IsDeclared(category) == category \in intents

\* self.replies.get(category), compared with the two reply-kind tags
ReplyFor(category) == DictGet(replies, category, <<>>)

\* The lookup without the "unified" default: the intent names its segment.
ResolveSegmentNoDefault(category) == DictGet(segment_assignments, category, category)

\* self.segment_assignments.get(category, "unified")
ResolveSegment(category) == DictGet(segment_assignments, category, "unified")

\* if result in ("I don't know", "I don't know."): result = self.dont_know_response
DontKnowNormalize(answer) ==
    IF answer \in {DontKnow, DontKnowDot} THEN dont_know_response ELSE Str(answer)

\* The lookup under a key that is never configured.
TemplateForDefault(category) == DictGet(replies, "category", DefaultReply)

\* self.replies.get(category, "I'm not sure how to respond to that.")
TemplateFor(category) == DictGet(replies, category, DefaultReply)

\* The static branch with two independent ifs: both tokens are substituted.
StaticReplyBoth(category, mem) ==
    LET result == TemplateFor(category)
        first == IF Contains(result, RR)
                 THEN Replace(result, RR, get_most_recent_response(mem))
                 ELSE result
    IN  IF Contains(first, RQ)
        THEN Replace(first, RQ, get_most_recent_query(mem))
        ELSE first

\* The static branch reading the memory after the query of the call in
\* progress was stored in it.
StaticReplyAfterSave(category, mem) ==
    LET result == TemplateFor(category)
        now == Append(mem, Human(Query(calls + 1)))
    IN  IF Contains(result, RR)
        THEN Replace(result, RR, get_most_recent_response(now))
        ELSE IF Contains(result, RQ)
        THEN Replace(result, RQ, get_most_recent_query(now))
        ELSE result

\* The static branch: the if / elif over the two placeholder tokens.
StaticReply(category, mem) ==
    LET result == TemplateFor(category)
    IN  IF Contains(result, RR)
        THEN Replace(result, RR, get_most_recent_response(mem))
        ELSE IF Contains(result, RQ)
        THEN Replace(result, RQ, get_most_recent_query(mem))
        ELSE result

\* ConversationalRetrievalChain built with memory=self.memory: a run that
\* returns has stored its own (question, answer) turn in that memory.
ChainRun(mem, query, answer) == save_context(mem, query, answer)

NoCall ==
    [query |-> <<>>, segments |-> {}, init_called |-> FALSE, prior |-> "none",
     before |-> <<>>, category |-> "", classifier_calls |-> 0, path |-> "none",
     segment |-> "", answer |-> <<>>, outcome |-> "none", error |-> "",
     result |-> None]

\* The call with the classification made before the store is looked at.
CallClassifyingFirst(query, category, path) ==
    [query |-> query, segments |-> Keys(indices), init_called |-> init.called,
     prior |-> last.path, before |-> memory, category |-> category,
     classifier_calls |-> 1, path |-> path, segment |-> "", answer |-> <<>>,
     outcome |-> "none", error |-> "", result |-> None]

\* What is known of a call once its path is decided; the outcome is filled in
\* by the path.
Call(query, category, path) ==
    [NoCall EXCEPT !.query = query, !.segments = Keys(indices),
                   !.init_called = init.called, !.prior = last.path,
                   !.before = memory, !.category = category,
                   !.classifier_calls = IF path = "not_initialized" THEN 0 ELSE 1,
                   !.path = path]

Raised(call, error) == [call EXCEPT !.outcome = "raised", !.error = error]
Returned(call, result) == [call EXCEPT !.outcome = "returned", !.result = result]

\* self.memory.save_context({"question": query}, {"response": result}) and
\* return result.  A message is built from a string only: a result that is
\* not one makes save_context raise, after or before the human message was
\* stored, depending on the library version.
SaveAndReturn(query, mem, result, call) ==
    IF result.kind = "str"
    THEN /\ memory' = save_context(mem, query, result.str)
         /\ last' = Returned(call, result)
    ELSE /\ memory' \in {mem, Append(mem, Human(query))}
         /\ last' = Raised([call EXCEPT !.result = result], "validation")

\* The guard asking whether initialize_assistant ran, not what it built.
StoreEmptyUntilCalled == ~init.called

\* not self.indices
StoreEmpty == indices = {}

\* A call that starts from an emptied store.
EnterResetting ==
    /\ calls < MaxCalls
    /\ calls' = calls + 1
    /\ observed' = NotObserved
    /\ indices' = {}
    /\ UNCHANGED <<config, temp_files, init>>

Enter == /\ calls < MaxCalls
         /\ calls' = calls + 1
         /\ observed' = NotObserved
         /\ UNCHANGED <<config, indices, temp_files, init>>

\* if not self.indices: raise ValueError("Assistant is not initialized.")
NotInitialized(query) ==
    /\ Enter
    /\ StoreEmpty
    /\ last' = Raised(Call(query, "", "not_initialized"), "not_initialized")
    /\ UNCHANGED memory

\* openaiAPI raises.
ClassificationFails(query) ==
    /\ Enter
    /\ ~StoreEmpty
    /\ last' = Raised(Call(query, "", "classification_failed"), "classification")
    /\ UNCHANGED memory

UnknownIntent(query, category) ==
    /\ Enter
    /\ ~StoreEmpty
    /\ ~IsDeclared(category)
    /\ SaveAndReturn(query, memory, Str(Fallback), Call(query, category, "unknown"))

MissingSegment(query, category) ==
    /\ Enter
    /\ ~StoreEmpty
    /\ IsDeclared(category)
    /\ ReplyFor(category) = RAG
    /\ ResolveSegment(category) \notin Keys(indices)
    /\ last' = Returned([Call(query, category, "missing_segment")
                            EXCEPT !.segment = ResolveSegment(category)],
                        Str(MissingSegmentMessage(ResolveSegment(category))))
    /\ UNCHANGED memory

RagReply(query, category, answer) ==
    /\ Enter
    /\ ~StoreEmpty
    /\ IsDeclared(category)
    /\ ReplyFor(category) = RAG
    /\ ResolveSegment(category) \in Keys(indices)
    /\ SaveAndReturn(query, ChainRun(memory, query, answer),
                     DontKnowNormalize(answer),
                     [Call(query, category, "rag")
                         EXCEPT !.segment = ResolveSegment(category),
                                !.answer = answer])

\* conversational_chain.run raises.
RagFails(query, category) ==
    /\ Enter
    /\ ~StoreEmpty
    /\ IsDeclared(category)
    /\ ReplyFor(category) = RAG
    /\ ResolveSegment(category) \in Keys(indices)
    /\ last' = Raised([Call(query, category, "rag_failed")
                          EXCEPT !.segment = ResolveSegment(category)], "chain")
    /\ UNCHANGED memory

RoleReply(query, category, reply) ==
    /\ Enter
    /\ ~StoreEmpty
    /\ IsDeclared(category)
    /\ ReplyFor(category) = RoleBased
    /\ SaveAndReturn(query, memory, Str(reply), Call(query, category, "role"))

\* openaiReply raises.
RoleFails(query, category) ==
    /\ Enter
    /\ ~StoreEmpty
    /\ IsDeclared(category)
    /\ ReplyFor(category) = RoleBased
    /\ last' = Raised(Call(query, category, "role_failed"), "completion")
    /\ UNCHANGED memory

Static(query, category) ==
    /\ Enter
    /\ ~StoreEmpty
    /\ IsDeclared(category)
    /\ ReplyFor(category) \notin {RAG, RoleBased}
    /\ SaveAndReturn(query, memory, Str(StaticReply(category, memory)),
                     Call(query, category, "static"))

get_response ==
    LET query == Query(calls + 1)
    IN  \/ NotInitialized(query)
        \/ ClassificationFails(query)
        \/ \E category \in Labels :
              \/ UnknownIntent(query, category)
              \/ MissingSegment(query, category)
              \/ \E answer \in Answers : RagReply(query, category, answer)
              \/ RagFails(query, category)
              \/ \E reply \in RoleReplies : RoleReply(query, category, reply)
              \/ RoleFails(query, category)
              \/ Static(query, category)

----------------------------------------------------------------------------

Init ==
    /\ pdf_urls \in { NormalizePdfUrls(arg) : arg \in PdfUrlArgs }
    /\ dont_know_response \in { NormalizeDontKnow(arg) : arg \in DontKnowArgs }
    /\ doc_outcome \in Environments
    /\ indices = {}
    /\ memory = <<>>
    /\ temp_files = {}
    /\ init = [called |-> FALSE, error |-> FALSE]
    /\ calls = 0
    /\ last = NoCall
    /\ observed = NotObserved

Next ==
    \/ initialize_assistant
    \/ get_response
    \/ GetMostRecentResponse
    \/ GetMostRecentQuery

Spec == Init /\ [][Next]_vars

----------------------------------------------------------------------------
\* Properties.

Disclaimers == {DontKnow, DontKnowDot}

\* The paths on which get_response has computed its result.
ResolvedPaths == {"unknown", "missing_segment", "rag", "role", "static"}

\* C1: after a get_response call has returned, the most recent query is that
\* call's query and the most recent response is the value it returned,
\* whichever reply path the call took.
C1_MostRecentIsLatestCall ==
    last.outcome = "returned" =>
        /\ get_most_recent_query(memory) = last.query
        /\ get_most_recent_response(memory) = last.result.str

\* C2: a get_response call that returned has appended exactly one turn, its
\* query and the returned value, at the end of the memory it found.
C2_OneTurnPerReturn ==
    last.outcome = "returned" =>
        memory = last.before \o <<Human(last.query), AI(last.result.str)>>

\* Every document of the declared segment loads and its index builds.
Healthy(item) ==
    /\ \A i \in 1..Len(item.val) : doc_outcome[item.val[i]] = "ok"
    /\ doc_outcome[item.key] = "ok"

\* C3: once initialize_assistant has returned, every declared segment whose
\* own build does not fail is in the index store, whatever happened to the
\* other segments and wherever they are declared.
C3_FailureContained ==
    init.called =>
        \A i \in 1..Len(pdf_urls) :
            Healthy(pdf_urls[i]) => pdf_urls[i].key \in Keys(indices)

\* C4: on the RAG path a generated answer that is one of the two disclaimers
\* is returned as the don't-know response configured for the intent, a string
\* that is not the disclaimer; any other answer is returned unchanged.
C4_DontKnowConfigured ==
    last.path = "rag" =>
        IF last.answer \in Disclaimers
        THEN /\ last.outcome = "returned"
             /\ last.result.kind = "str"
             /\ last.result.str \notin Disclaimers
             /\ dont_know_response.kind = "str" =>
                    last.result.str = dont_know_response.str
             /\ \A e \in dont_know_response.dict :
                    e.key = last.category => last.result.str = e.val
        ELSE /\ last.outcome = "returned"
             /\ last.result = Str(last.answer)

\* C5: a call on an initialized assistant whose classifier answers a label
\* outside the declared intents returns the fixed fallback string and does
\* not raise.
C5_UnknownIntentFallback ==
    (last.classifier_calls = 1 /\ last.category # "" /\ last.category \notin intents) =>
        /\ last.outcome = "returned"
        /\ last.result = Str(<<"Unfortunately, I am unable to help you with that.">>)

C5_Witness ==
    /\ last.category = "gibberish"
    /\ last.outcome = "returned"
    /\ last.before # <<>>
    /\ Cardinality(last.segments) = 1

\* C6: a call made while the index store is empty raises the
\* not-initialized error and returns nothing.
C6_EmptyStoreRaises ==
    (last.path # "none" /\ last.segments = {}) =>
        /\ last.outcome = "raised"
        /\ last.error = "not_initialized"

C6_Witness ==
    /\ last.path = "not_initialized"
    /\ last.init_called
    /\ last.segments = {}

\* C7: a call whose intent is configured as RAG and whose segment (the
\* assigned one, "unified" by default) has no index returns the error string
\* naming that segment; a call routed to a built segment goes on to retrieval
\* and returns what was generated, also after an earlier missing segment.
C7_MissingSegmentReported ==
    LET assigned == { a \in segment_assignments : a.key = last.category }
        segment == IF assigned = {} THEN "unified"
                   ELSE (CHOOSE a \in assigned : TRUE).val
    IN  (/\ last.classifier_calls = 1
         /\ last.category \in intents
         /\ [key |-> last.category, val |-> <<"RAG">>] \in replies
         /\ last.segments # {}) =>
            IF segment \notin last.segments
            THEN /\ last.outcome = "returned"
                 /\ last.result =
                        Str(<<"Error: No database found for segment '", segment, "'">>)
            ELSE /\ last.path \in {"rag", "rag_failed"}
                 /\ (last.path = "rag" /\ last.answer \notin Disclaimers) =>
                        /\ last.outcome = "returned"
                        /\ last.result = Str(last.answer)

C7_Witness ==
    /\ last.prior = "missing_segment"
    /\ last.path = "rag"
    /\ last.outcome = "returned"
    /\ Cardinality(last.segments) = 1

\* C8: on every path on which get_response computes a result, the result is
\* a string, the don't-know normalization included.
C8_ResultIsString ==
    last.path \in ResolvedPaths => last.result.kind = "str"

\* C9: an intent whose configured reply is a static template without either
\* placeholder token is answered with that template, unchanged, whatever the
\* memory holds.
C9_StaticVerbatim ==
    \A e \in replies :
        (/\ last.classifier_calls = 1
         /\ last.category = e.key
         /\ last.category \in intents
         /\ last.segments # {}
         /\ e.val \notin {RAG, RoleBased}
         /\ \A i \in 1..Len(e.val) : e.val[i] \notin {RR, RQ}) =>
            /\ last.outcome = "returned"
            /\ last.result = Str(e.val)

\* The same plain template answered twice in a row.
C9_Witness ==
    /\ last.category = "hours"
    /\ last.outcome = "returned"
    /\ last.before # <<>>
    /\ get_most_recent_response(last.before) = last.result.str

\* The template with every occurrence of the token replaced by one atom.
Filled(template, token, atom) ==
    [i \in 1..Len(template) |-> IF template[i] = token THEN atom ELSE template[i]]

\* C10 as stated: with no turn in memory, a static template containing
\* {most_recent_query} is returned with that token replaced by the query
\* sentinel, one containing {most_recent_response} with that token replaced
\* by the response sentinel.
C10_SentinelForEitherToken ==
    \A e \in replies :
        (/\ last.path = "static"
         /\ last.category = e.key
         /\ last.before = <<>>) =>
            /\ Contains(e.val, RQ) =>
                   /\ last.outcome = "returned"
                   /\ \A i \in 1..Len(e.val) :
                          e.val[i] = RQ =>
                              last.result.str[i] =
                                  "Error: Most recent query could not be retrieved"
            /\ Contains(e.val, RR) =>
                   /\ last.outcome = "returned"
                   /\ last.result.str =
                          Filled(e.val, RR,
                                 "Error: Most recent response could not be retrieved")

\* C10 as amended: the query token is replaced when the template holds no
\* response token; the response token is replaced always.
C10_SentinelOnEmptyMemory ==
    \A e \in replies :
        (/\ last.path = "static"
         /\ last.category = e.key
         /\ last.before = <<>>) =>
            /\ (Contains(e.val, RQ) /\ ~Contains(e.val, RR)) =>
                   /\ last.outcome = "returned"
                   /\ last.result.str =
                          Filled(e.val, RQ,
                                 "Error: Most recent query could not be retrieved")
            /\ Contains(e.val, RR) =>
                   /\ last.outcome = "returned"
                   /\ last.result.str =
                          Filled(e.val, RR,
                                 "Error: Most recent response could not be retrieved")

C10_Witness ==
    /\ last.path = "static"
    /\ last.category = "greeting"
    /\ last.before = <<>>
    /\ last.result.str =
           <<"Hello, ", "Error: Most recent query could not be retrieved", "!">>

\* C11: every step leaves the memory it found as a prefix of the memory it
\* leaves: initialize_assistant, get_response on every path and the two
\* getters remove, reorder and rewrite nothing.
C11_AppendOnly ==
    [][/\ Len(memory) <= Len(memory')
       /\ \A i \in 1..Len(memory) : memory'[i] = memory[i]]_vars

\* A getter has been called on a memory of two turns.
C11_Witness ==
    /\ observed.getter = "response"
    /\ Len(memory) >= 4
    /\ init.called

\* C12: a static template holding both tokens has every
\* {most_recent_response} replaced and keeps {most_recent_query} literally;
\* {most_recent_query} is replaced only in a template without
\* {most_recent_response}.
C12_OneSubstitution ==
    \A e \in replies :
        (last.path = "static" /\ last.category = e.key) =>
            /\ Contains(e.val, RR) =>
                   /\ last.result.str =
                          Replace(e.val, RR, get_most_recent_response(last.before))
                   /\ Contains(e.val, RQ) => Contains(last.result.str, RQ)
            /\ (Contains(e.val, RQ) /\ ~Contains(e.val, RR)) =>
                   /\ last.result.str =
                          Replace(e.val, RQ, get_most_recent_query(last.before))
                   /\ ~Contains(last.result.str, RQ)

C12_Witness ==
    /\ last.path = "static"
    /\ last.category = "both"
    /\ last.before # <<>>
    /\ last.result.str =
           <<"We are open 9 to 5.", " was my answer to ", "{most_recent_query}">>

\* C13: a segment is a key of the index store only with the index of all its
\* declared documents, each of them downloaded and parsed without failure.
C13_NoPartialIndex ==
    \A e \in indices :
        \E i \in 1..Len(pdf_urls) :
            /\ pdf_urls[i].key = e.key
            /\ e.val = pdf_urls[i].val
            /\ \A j \in 1..Len(e.val) : doc_outcome[e.val[j]] = "ok"

\* One segment is built and the other lost its second document.
C13_Witness ==
    /\ init.called
    /\ init.error
    /\ Keys(indices) = {"unified"}
    /\ Len(pdf_urls) = 2
    /\ doc_outcome["u1"] = "ok"
    /\ doc_outcome["u2"] # "ok"

\* C14: once initialize_assistant has returned, no temporary file of a
\* document it downloaded is left, whatever parsing and chunking did.
C14_NoResidualTempFile ==
    init.called => temp_files = {}

\* C15: a step that changes the index store is a step of
\* initialize_assistant: get_response on every path, and the getters, leave
\* the keys and the indices as they were.
C15_StoreFrame ==
    [][indices' # indices =>
           /\ calls' = calls
           /\ last' = last
           /\ observed' = observed
           /\ init'.called]_vars

\* Two calls on different paths, the store as initialize_assistant left it.
C15_Witness ==
    /\ calls = 2
    /\ last.prior = "rag"
    /\ last.path = "missing_segment"
    /\ Keys(indices) = last.segments
    /\ indices = {[key |-> "unified", val |-> <<"u3">>]}

\* The newest human message of mem that is followed by its response, 0 when
\* no turn is stored.
LatestTurn(mem) ==
    IF \E i \in 1..(Len(mem) - 1) : mem[i].type = "human" /\ mem[i + 1].type = "ai"
    THEN CHOOSE i \in 1..(Len(mem) - 1) :
             /\ mem[i].type = "human" /\ mem[i + 1].type = "ai"
             /\ \A j \in (i + 1)..(Len(mem) - 1) :
                    ~(mem[j].type = "human" /\ mem[j + 1].type = "ai")
    ELSE 0

\* C16: in a static reply the {most_recent_query} token stands for the query
\* of the latest turn stored before the call (the sentinel when there is
\* none), never for the call's own query; {most_recent_response} stands for
\* the response of that turn.
C16_ReadsMemoryBeforeAppend ==
    LET turn == LatestTurn(last.before)
        query == IF turn = 0
                 THEN <<"Error: Most recent query could not be retrieved">>
                 ELSE last.before[turn].content
        response == IF turn = 0
                    THEN <<"Error: Most recent response could not be retrieved">>
                    ELSE last.before[turn + 1].content
    IN  \A e \in replies :
            (last.path = "static" /\ last.category = e.key) =>
                /\ (Contains(e.val, RQ) /\ ~Contains(e.val, RR)) =>
                       /\ last.result.str = Replace(e.val, RQ, query)
                       /\ last.result.str # Replace(e.val, RQ, last.query)
                /\ Contains(e.val, RR) =>
                       last.result.str = Replace(e.val, RR, response)

C16_Witness ==
    /\ last.path = "static"
    /\ last.category = "greeting"
    /\ last.query = <<"query ", "2">>
    /\ last.result.str = <<"Hello, ", "query ", "1", "!">>

\* C17: a get_response call made on an empty store, or whose classification
\* call raised, ends by raising, has called the classifier at most once and
\* not at all when the store was empty, and leaves the memory as it found it.
C17_RaiseLeavesMemory ==
    /\ (last.path # "none" /\ last.segments = {}) =>
           /\ last.outcome = "raised"
           /\ last.classifier_calls = 0
           /\ memory = last.before
    /\ last.path = "classification_failed" =>
           /\ last.outcome = "raised"
           /\ last.classifier_calls = 1
           /\ memory = last.before

\* The classification of the second call raised, after a first call stored a
\* turn.
C17_Witness ==
    /\ last.path = "classification_failed"
    /\ last.outcome = "raised"
    /\ Len(last.before) = 2
    /\ memory = last.before

====
